---- MODULE Spec2Model ----
(***************************************************************************)
(* Ethernet II layer with optional 802.1Q / 802.1ad tagging                *)
(* (core/src/packets/ethernet.rs) over a byte buffer (Mbuf).               *)
(*                                                                         *)
(* The buffer is modelled as its backing memory (Capacity bytes) together  *)
(* with its occupied length data_len.  The layer holds a raw pointer into  *)
(* that memory (envelope.mem at offset), so header accessors read and      *)
(* write memory without looking at data_len, exactly as the code does.     *)
(***************************************************************************)
EXTENDS Integers, Sequences, FiniteSets, TLC

VARIABLES
    pc,       \* who owns the buffer: "mbuf" (caller), "ethernet" (a layer), "dropped"
    mbuf,     \* the buffer: [mem : 0..Capacity-1 -> byte, data_len : Nat]
    offset,   \* Ethernet.offset of the live layer
    err,      \* result of the last fallible operation
    op,       \* name of the last operation
    arg,      \* argument of the last operation (0 when it has none)
    pre,      \* snapshot before the last operation
    pre2,     \* snapshot before the operation before that
    steps,    \* number of operations performed
    hostLE    \* byte order of the build target: TRUE little-endian, FALSE big-endian

vars == <<pc, mbuf, offset, err, op, arg, pre, pre2, steps, hostLE>>

----------------------------------------------------------------------------
(* Bounds of the model *)

Capacity == 38        \* bytes of backing memory of one buffer
MaxLen   == 24        \* longest frame handed to the program
MaxOps   == 4         \* operations per behaviour

----------------------------------------------------------------------------
(* Program constants *)

VLAN_802_1Q  == 33024     \* 0x8100
VLAN_802_1AD == 34984     \* 0x88a8

EthernetHeader_size_of == 14
VlanTag_size_of == 4

----------------------------------------------------------------------------
(* Results *)

Ok == [kind |-> "Ok", required |-> 0, available |-> 0]
OutOfBuffer(required, available) ==
    [kind |-> "OutOfBuffer", required |-> required, available |-> available]
BufferRangeInvalid == [kind |-> "BufferRangeInvalid", required |-> 0, available |-> 0]
BufferCapacityExceeded == [kind |-> "BufferCapacityExceeded", required |-> 0, available |-> 0]

----------------------------------------------------------------------------
(* 16-bit integers in memory *)

swap_bytes(x) == (x % 256) * 256 + (x \div 256)

\* u16::from_be: big-endian representation to host order
from_be(x) == IF hostLE THEN swap_bytes(x) ELSE x

\* u16::to_be: host order to big-endian representation
to_be(x) == IF hostLE THEN swap_bytes(x) ELSE x

\* a u16 field of a packed struct read in host order at address a
load_u16(mem, a) ==
    IF hostLE THEN mem[a] + 256 * mem[a + 1] ELSE 256 * mem[a] + mem[a + 1]

\* a u16 field of a packed struct written in host order at address a
store_u16(mem, a, x) ==
    IF hostLE
    THEN [mem EXCEPT ![a] = x % 256, ![a + 1] = x \div 256]
    ELSE [mem EXCEPT ![a] = x \div 256, ![a + 1] = x % 256]

\* a MacAddr field (6 bytes, verbatim) at address a
load_mac(mem, a) == [i \in 0..5 |-> mem[a + i]]
store_mac(mem, a, mac) ==
    [i \in DOMAIN mem |-> IF i >= a /\ i < a + 6 THEN mac[i - a] ELSE mem[i]]

----------------------------------------------------------------------------
(* Layout of EthernetHeader and of the overlays of Chunk *)

OFF_dst == 0
OFF_src == 6
OFF_chunk == 12
OFF_chunk_ether_type == 12
OFF_802_1q_tag == 12
OFF_802_1q_ether_type == 16
OFF_802_1ad_stag == 12
OFF_802_1ad_ctag == 16
OFF_802_1ad_ether_type == 20

----------------------------------------------------------------------------
(* The byte buffer (Mbuf) *)

\* Mbuf as the outermost envelope: its payload starts at offset 0
payload_offset(envelope) == 0

\* Mbuf::read_data: bounds-checked typed read of size bytes at off
read_data(b, off, size) ==
    IF off + size > b.data_len THEN BufferRangeInvalid ELSE Ok

\* Mbuf::extend: insert n zero bytes at off, shifting the trailing bytes
extend_ok(b, off, n) == off <= b.data_len /\ b.data_len + n <= Capacity
extend(b, off, n) ==
    [mem |-> [i \in DOMAIN b.mem |->
                 IF i < off THEN b.mem[i]
                 ELSE IF i < off + n THEN 0
                 ELSE IF i < b.data_len + n THEN b.mem[i - n]
                 ELSE b.mem[i]],
     data_len |-> b.data_len + n]

\* Mbuf::shrink: remove n bytes at off, shifting the trailing bytes back
shrink_ok(b, off, n) == off + n <= b.data_len
shrink(b, off, n) ==
    [mem |-> [i \in DOMAIN b.mem |->
                 IF i >= off /\ i < b.data_len - n THEN b.mem[i + n]
                 ELSE b.mem[i]],
     data_len |-> b.data_len - n]

\* Mbuf::write_data of a default (all-zero) header of size bytes at off
write_data_ok(b, off, size) == off + size <= b.data_len
write_default(b, off, size) ==
    [b EXCEPT !.mem = [i \in DOMAIN b.mem |->
                          IF i >= off /\ i < off + size THEN 0 ELSE b.mem[i]]]

----------------------------------------------------------------------------
(* Ethernet: a layer p = [envelope |-> buffer, offset |-> header offset] *)

Ethernet(envelope, off) == [envelope |-> envelope, offset |-> off]

src(p) == load_mac(p.envelope.mem, p.offset + OFF_src)

set_src(p, mac) ==
    [p EXCEPT !.envelope.mem = store_mac(@, p.offset + OFF_src, mac)]

dst(p) == load_mac(p.envelope.mem, p.offset + OFF_dst)

set_dst(p, mac) ==
    [p EXCEPT !.envelope.mem = store_mac(@, p.offset + OFF_dst, mac)]

\* the marker taken in host order, without from_be
vlan_marker_host_order(p) == load_u16(p.envelope.mem, p.offset + OFF_chunk_ether_type)

vlan_marker(p) == from_be(load_u16(p.envelope.mem, p.offset + OFF_chunk_ether_type))

\* a double-tagged frame read through the single-tag overlay
ether_type_single_overlay(p) ==
    LET m == p.envelope.mem
        raw == CASE vlan_marker_host_order(p) = to_be(VLAN_802_1Q) ->
                      load_u16(m, p.offset + OFF_802_1q_ether_type)
                 [] vlan_marker_host_order(p) = to_be(VLAN_802_1AD) ->
                      load_u16(m, p.offset + OFF_802_1q_ether_type)
                 [] OTHER -> load_u16(m, p.offset + OFF_chunk_ether_type)
    IN from_be(raw)

ether_type(p) ==
    LET m == p.envelope.mem
        raw == CASE vlan_marker(p) = VLAN_802_1Q ->
                      load_u16(m, p.offset + OFF_802_1q_ether_type)
                 [] vlan_marker(p) = VLAN_802_1AD ->
                      load_u16(m, p.offset + OFF_802_1ad_ether_type)
                 [] OTHER -> load_u16(m, p.offset + OFF_chunk_ether_type)
    IN from_be(raw)

\* the ether type always written over the marker, tagged or not
set_ether_type_untagged(p, et) ==
    [p EXCEPT !.envelope.mem = store_u16(@, p.offset + OFF_chunk_ether_type, to_be(et))]

set_ether_type(p, et) ==
    LET v == to_be(et)
        a == CASE vlan_marker(p) = VLAN_802_1Q -> p.offset + OFF_802_1q_ether_type
               [] vlan_marker(p) = VLAN_802_1AD -> p.offset + OFF_802_1ad_ether_type
               [] OTHER -> p.offset + OFF_chunk_ether_type
    IN [p EXCEPT !.envelope.mem = store_u16(@, a, v)]

is_vlan_802_1q(p) == vlan_marker(p) = VLAN_802_1Q

is_vlan_802_1ad(p) == vlan_marker(p) = VLAN_802_1AD

\* src re-read after it was overwritten
swap_addresses_stale(p) ==
    LET d == load_mac(p.envelope.mem, p.offset + OFF_dst)
        q == [p EXCEPT !.envelope.mem = store_mac(@, p.offset + OFF_src, d)]
    IN [q EXCEPT !.envelope.mem =
           store_mac(@, q.offset + OFF_dst, load_mac(q.envelope.mem, q.offset + OFF_src))]

swap_addresses(p) ==
    LET s == src(p)
        d == dst(p)
    IN set_dst(set_src(p, d), s)

header_len(p) ==
    IF is_vlan_802_1q(p) THEN EthernetHeader_size_of + VlanTag_size_of
    ELSE IF is_vlan_802_1ad(p) THEN EthernetHeader_size_of + VlanTag_size_of * 2
    ELSE EthernetHeader_size_of

\* Packet::len: bytes from the layer's offset to the end of the data
len(p) == p.envelope.data_len - p.offset

\* the length check made against the nominal size only
do_parse_nominal(envelope) ==
    LET r == read_data(envelope, 0, EthernetHeader_size_of)
        packet == [envelope |-> envelope, offset |-> 0]
    IN IF r # Ok THEN [err |-> r, packet |-> packet]
       ELSE IF ~(envelope.data_len >= EthernetHeader_size_of)
       THEN [err |-> OutOfBuffer(EthernetHeader_size_of, envelope.data_len),
             packet |-> packet]
       ELSE [err |-> Ok, packet |-> packet]

\* result of do_parse: [err, packet]
do_parse(envelope) ==
    LET off == payload_offset(envelope)
        r == read_data(envelope, off, EthernetHeader_size_of)
        packet == Ethernet(envelope, off)
    IN IF r # Ok THEN [err |-> r, packet |-> packet]
       ELSE IF ~(envelope.data_len >= header_len(packet))
       THEN [err |-> OutOfBuffer(header_len(packet), envelope.data_len),
             packet |-> packet]
       ELSE [err |-> Ok, packet |-> packet]

\* the buffer grown for a single-tagged header
do_push_tagged(envelope) ==
    LET n == EthernetHeader_size_of + VlanTag_size_of
        grown == extend(envelope, 0, n)
    IN IF ~extend_ok(envelope, 0, n)
       THEN [err |-> BufferCapacityExceeded,
             packet |-> [envelope |-> envelope, offset |-> 0]]
       ELSE [err |-> Ok,
             packet |-> [envelope |-> write_default(grown, 0, EthernetHeader_size_of),
                         offset |-> 0]]

\* result of do_push: [err, packet]
do_push(envelope) ==
    LET off == payload_offset(envelope)
        grown == extend(envelope, off, EthernetHeader_size_of)
    IN IF ~extend_ok(envelope, off, EthernetHeader_size_of)
       THEN [err |-> BufferCapacityExceeded, packet |-> Ethernet(envelope, off)]
       ELSE IF ~write_data_ok(grown, off, EthernetHeader_size_of)
       THEN [err |-> BufferRangeInvalid, packet |-> Ethernet(grown, off)]
       ELSE [err |-> Ok,
             packet |-> Ethernet(write_default(grown, off, EthernetHeader_size_of), off)]

\* the layer's whole length removed instead of its header
remove_len(p) ==
    LET n == p.envelope.data_len - p.offset
    IN IF ~shrink_ok(p.envelope, p.offset, n)
       THEN [err |-> BufferRangeInvalid, envelope |-> p.envelope]
       ELSE [err |-> Ok, envelope |-> shrink(p.envelope, p.offset, n)]

\* result of remove: [err, envelope]
remove(p) ==
    LET off == p.offset
        n == header_len(p)
    IN IF ~shrink_ok(p.envelope, off, n)
       THEN [err |-> BufferRangeInvalid, envelope |-> p.envelope]
       ELSE [err |-> Ok, envelope |-> shrink(p.envelope, off, n)]

deparse(p) == p.envelope

----------------------------------------------------------------------------
(* VlanTag: the tag found at address a of the memory *)

VlanTag(mem, a) == [tpid |-> load_u16(mem, a), tci |-> load_u16(mem, a + 2)]

tag_id(t) == t.tpid

priority(t) == (t.tci \div 8192) % 256

drop_eligible(t) == ((t.tci \div 4096) % 2) * 4096 > 0

identifier(t) == t.tci % 4096

----------------------------------------------------------------------------
(* Inputs *)

Byte == 0..255

MacA == [i \in 0..5 |-> IF i = 5 THEN 10 ELSE 170]
MacB == [i \in 0..5 |-> IF i = 0 THEN 187 ELSE 11]
Macs == {MacA, MacB}

\* 0x0806 ARP, 0x8100, 0x88a8, 0x0081 (0x8100 byte-swapped)
EtherTypeInputs == {2054, VLAN_802_1Q, VLAN_802_1AD, 129}

FrameKinds == {"arp", "q", "ad", "swapped"}

marker_of(kind) ==
    CASE kind = "arp" -> 2054
      [] kind = "q" -> VLAN_802_1Q
      [] kind = "ad" -> VLAN_802_1AD
      [] OTHER -> 129

\* byte i of the frame of the given kind, as on the wire
FrameByte(kind, i) ==
    CASE i < 5 -> 0
      [] i = 5 -> 1
      [] i > 5 /\ i < 11 -> 0
      [] i = 11 -> 2
      [] i = 12 -> marker_of(kind) \div 256
      [] i = 13 -> marker_of(kind) % 256
      [] i = 14 -> 0
      [] i = 15 -> 123
      [] i = 16 -> IF kind = "ad" THEN 129 ELSE 8
      [] i = 17 -> IF kind = "ad" THEN 0 ELSE 6
      [] i = 18 -> 32
      [] i = 19 -> 101
      [] i = 20 -> 8
      [] i = 21 -> 6
      [] OTHER -> 192 + (i % 16)

DataLens == {0, 13, 14, 17, 18, 21, 22, MaxLen}

\* what the memory past the data holds when the buffer is handed over
StaleBytes == {0, 165}

Snapshot == [pc |-> pc, mbuf |-> mbuf, offset |-> offset, op |-> op, err |-> err]

----------------------------------------------------------------------------
(* State machine *)

Init ==
    /\ hostLE \in BOOLEAN
    /\ \E kind \in FrameKinds, n \in DataLens, stale \in StaleBytes :
          mbuf = [mem |-> [i \in 0..(Capacity - 1) |->
                              IF i < n THEN FrameByte(kind, i) ELSE stale],
                  data_len |-> n]
    /\ pc = "mbuf"
    /\ offset = 0
    /\ err = Ok
    /\ op = "new"
    /\ arg = 0
    /\ pre = [pc |-> "mbuf", mbuf |-> mbuf, offset |-> 0, op |-> "none", err |-> Ok]
    /\ pre2 = pre
    /\ steps = 0

Record(name, a) ==
    /\ op' = name
    /\ arg' = a
    /\ pre' = Snapshot
    /\ pre2' = pre
    /\ steps' = steps + 1
    /\ UNCHANGED hostLE

\* Mbuf::parse::<Ethernet>()
Parse ==
    /\ pc = "mbuf"
    /\ steps < MaxOps
    /\ LET r == do_parse(mbuf)
       IN /\ err' = r.err
          /\ pc' = IF r.err = Ok THEN "ethernet" ELSE "dropped"
          /\ offset' = r.packet.offset
          /\ mbuf' = r.packet.envelope
    /\ Record("parse", 0)

\* Mbuf::push::<Ethernet>()
Push ==
    /\ pc = "mbuf"
    /\ steps < MaxOps
    /\ LET r == do_push(mbuf)
       IN /\ err' = r.err
          /\ pc' = IF r.err = Ok THEN "ethernet" ELSE "dropped"
          /\ offset' = r.packet.offset
          /\ mbuf' = r.packet.envelope
    /\ Record("push", 0)

SetSrc ==
    /\ pc = "ethernet"
    /\ steps < MaxOps
    /\ \E mac \in Macs :
          /\ mbuf' = set_src(Ethernet(mbuf, offset), mac).envelope
          /\ Record("set_src", mac)
    /\ err' = Ok
    /\ UNCHANGED <<pc, offset>>

SetDst ==
    /\ pc = "ethernet"
    /\ steps < MaxOps
    /\ \E mac \in Macs :
          /\ mbuf' = set_dst(Ethernet(mbuf, offset), mac).envelope
          /\ Record("set_dst", mac)
    /\ err' = Ok
    /\ UNCHANGED <<pc, offset>>

SetEtherType ==
    /\ pc = "ethernet"
    /\ steps < MaxOps
    /\ \E et \in EtherTypeInputs :
          /\ mbuf' = set_ether_type(Ethernet(mbuf, offset), et).envelope
          /\ Record("set_ether_type", et)
    /\ err' = Ok
    /\ UNCHANGED <<pc, offset>>

SwapAddresses ==
    /\ pc = "ethernet"
    /\ steps < MaxOps
    /\ mbuf' = swap_addresses(Ethernet(mbuf, offset)).envelope
    /\ Record("swap_addresses", 0)
    /\ err' = Ok
    /\ UNCHANGED <<pc, offset>>

Remove ==
    /\ pc = "ethernet"
    /\ steps < MaxOps
    /\ LET r == remove(Ethernet(mbuf, offset))
       IN /\ err' = r.err
          /\ pc' = IF r.err = Ok THEN "mbuf" ELSE "dropped"
          /\ mbuf' = r.envelope
    /\ offset' = 0
    /\ Record("remove", 0)

Deparse ==
    /\ pc = "ethernet"
    /\ steps < MaxOps
    /\ mbuf' = deparse(Ethernet(mbuf, offset))
    /\ pc' = "mbuf"
    /\ offset' = 0
    /\ err' = Ok
    /\ Record("deparse", 0)

Next ==
    \/ Parse
    \/ Push
    \/ SetSrc
    \/ SetDst
    \/ SetEtherType
    \/ SwapAddresses
    \/ Remove
    \/ Deparse

Spec == Init /\ [][Next]_vars

----------------------------------------------------------------------------
TypeOK ==
    /\ pc \in {"mbuf", "ethernet", "dropped"}
    /\ mbuf.data_len \in 0..Capacity
    /\ \A i \in DOMAIN mbuf.mem : mbuf.mem[i] \in Byte
    /\ steps \in 0..MaxOps

----------------------------------------------------------------------------
(* Vocabulary of the properties: the wire bytes, read independently of the *)
(* accessors                                                               *)

P == Ethernet(mbuf, offset)
PreP == Ethernet(pre.mbuf, pre.offset)
Pre2P == Ethernet(pre2.mbuf, pre2.offset)

\* big-endian value of the two wire bytes at address a
WireU16(b, a) == 256 * b.mem[a] + b.mem[a + 1]

\* the tag marker on the wire of a header starting at off
WireMarker(b, off) == WireU16(b, off + 12)

InstanceLen(marker) ==
    IF marker = 33024 THEN 18 ELSE IF marker = 34984 THEN 22 ELSE 14

EtherTypeAt(marker) ==
    IF marker = 33024 THEN 16 ELSE IF marker = 34984 THEN 20 ELSE 12

ZeroMac == [i \in 0..5 |-> 0]

\* the memory of a and b agrees everywhere but on the addresses in S
SameExcept(a, b, S) == \A i \in DOMAIN a.mem : i \notin S => a.mem[i] = b.mem[i]

----------------------------------------------------------------------------
(* C1, as stated: parsing a buffer shorter than the instance length        *)
(* detected from the marker (14, 18 or 22) fails with                      *)
(* OutOfBuffer(header_len, data_len) and returns no layer; every other     *)
(* buffer parses.                                                          *)
C1_AsStated ==
    op = "parse" =>
        LET b == pre.mbuf
            n == InstanceLen(WireMarker(b, 0))
        IN IF b.data_len < n
           THEN err = OutOfBuffer(n, b.data_len) /\ pc # "ethernet"
           ELSE err = Ok /\ pc = "ethernet"

(* C1, amended: a buffer with 14 <= data_len < instance length fails with  *)
(* OutOfBuffer(header_len, data_len); a buffer with data_len < 14 fails    *)
(* with the error of the buffer's bounds-checked read of the nominal       *)
(* header; neither returns a layer; a buffer with data_len >= instance     *)
(* length parses.                                                          *)
C1_ParseLength ==
    op = "parse" =>
        LET b == pre.mbuf
            n == InstanceLen(WireMarker(b, 0))
        IN IF b.data_len < 14
           THEN /\ err = read_data(b, 0, 14)
                /\ err # Ok
                /\ err.kind # "OutOfBuffer"
                /\ pc = "dropped"
           ELSE IF b.data_len < n
           THEN err = OutOfBuffer(n, b.data_len) /\ pc = "dropped"
           ELSE err = Ok /\ pc = "ethernet" /\ mbuf = b

C1_Witness ==
    /\ op = "parse"
    /\ err = OutOfBuffer(22, 21)
    /\ pc = "dropped"

(* C2: while a layer is attached, offset + header_len() <= data_len.       *)
C2_HeaderWithinData ==
    pc = "ethernet" => offset + header_len(P) <= mbuf.data_len

(* C3: header_len() is 18 exactly when the big-endian marker at header     *)
(* offset 12 is 0x8100, 22 exactly when it is 0x88A8 and 14 otherwise,     *)
(* whatever the marker was before; is_vlan_802_1q and is_vlan_802_1ad      *)
(* follow the marker and are never both true.                              *)
C3_HeaderLen ==
    pc = "ethernet" =>
        LET m == WireMarker(mbuf, offset)
        IN /\ is_vlan_802_1q(P) <=> (m = 33024)
           /\ is_vlan_802_1ad(P) <=> (m = 34984)
           /\ header_len(P) = 18 <=> (m = 33024)
           /\ header_len(P) = 22 <=> (m = 34984)
           /\ (m # 33024 /\ m # 34984) => header_len(P) = 14
           /\ ~(is_vlan_802_1q(P) /\ is_vlan_802_1ad(P))

C3_Witness ==
    /\ pc = "ethernet"
    /\ op = "set_ether_type"
    /\ header_len(PreP) = 14
    /\ header_len(P) = 22

(* C4: ether_type() is the big-endian value of the two bytes at header     *)
(* offset 12 (untagged marker), 16 (marker 0x8100) or 20 (marker 0x88A8),  *)
(* chosen by the marker currently in the buffer.                           *)
C4_EtherType ==
    pc = "ethernet" =>
        ether_type(P) =
            WireU16(mbuf, offset + EtherTypeAt(WireMarker(mbuf, offset)))

C4_Witness ==
    /\ pc = "ethernet"
    /\ op = "parse"
    /\ WireMarker(mbuf, offset) = 34984
    /\ mbuf.data_len >= 22
    /\ ether_type(P) = 2054

(* C5: remove shrinks the buffer by exactly header_len() (14, 18 or 22, as *)
(* the marker says at the call) at the layer's offset and returns the      *)
(* buffer; the bytes after the header follow in order from the offset.     *)
C5_Remove ==
    op = "remove" =>
        LET n == InstanceLen(WireMarker(pre.mbuf, pre.offset))
        IN /\ err = Ok
           /\ pc = "mbuf"
           /\ mbuf.data_len = pre.mbuf.data_len - n
           /\ \A i \in 0..(Capacity - 1) :
                 /\ i < pre.offset => mbuf.mem[i] = pre.mbuf.mem[i]
                 /\ (i >= pre.offset /\ i < mbuf.data_len)
                       => mbuf.mem[i] = pre.mbuf.mem[i + n]

(* C6: push followed at once by remove succeeds on every buffer with 14    *)
(* bytes of spare capacity and gives back a buffer of the same occupied    *)
(* length holding the same bytes.                                          *)
C6_PushRemove ==
    /\ (op = "push" /\ pre.mbuf.data_len + 14 <= Capacity) => err = Ok
    /\ (op = "remove" /\ pre.op = "push") =>
          /\ err = Ok
          /\ pc = "mbuf"
          /\ mbuf.data_len = pre2.mbuf.data_len
          /\ \A i \in 0..(Capacity - 1) :
                i < mbuf.data_len => mbuf.mem[i] = pre2.mbuf.mem[i]

C6_Witness ==
    /\ op = "remove"
    /\ pre.op = "push"
    /\ err = Ok
    /\ mbuf.data_len = MaxLen

(* C7: a successful push grows the buffer by exactly 14 bytes at the       *)
(* target offset; the new layer has dst, src and ether_type zero, carries  *)
(* no VLAN tag and has header_len() 14; on an empty buffer its len() is    *)
(* 14.                                                                     *)
C7_Push ==
    (op = "push" /\ err = Ok) =>
        /\ pc = "ethernet"
        /\ mbuf.data_len = pre.mbuf.data_len + 14
        /\ \A i \in 0..(Capacity - 1) :
              /\ i < offset => mbuf.mem[i] = pre.mbuf.mem[i]
              /\ (i >= offset + 14 /\ i < mbuf.data_len)
                    => mbuf.mem[i] = pre.mbuf.mem[i - 14]
        /\ dst(P) = ZeroMac
        /\ src(P) = ZeroMac
        /\ ether_type(P) = 0
        /\ ~is_vlan_802_1q(P)
        /\ ~is_vlan_802_1ad(P)
        /\ header_len(P) = 14
        /\ pre.mbuf.data_len = 0 => len(P) = 14

C7_Witness ==
    /\ op = "push"
    /\ err = Ok
    /\ pre.mbuf.data_len = 0
    /\ len(P) = 14

(* C8: swap_addresses exchanges src and dst, changes no byte outside       *)
(* header offsets 0..11 (so marker, ether_type(), header_len() and         *)
(* data_len stay), and applied twice restores src and dst.                 *)
C8_SwapAddresses ==
    /\ op = "swap_addresses" =>
          /\ src(P) = dst(PreP)
          /\ dst(P) = src(PreP)
          /\ SameExcept(mbuf, pre.mbuf, offset..(offset + 11))
          /\ mbuf.data_len = pre.mbuf.data_len
          /\ WireMarker(mbuf, offset) = WireMarker(pre.mbuf, pre.offset)
          /\ ether_type(P) = ether_type(PreP)
          /\ header_len(P) = header_len(PreP)
    /\ (op = "swap_addresses" /\ pre.op = "swap_addresses") =>
          /\ src(P) = src(Pre2P)
          /\ dst(P) = dst(Pre2P)

C8_Witness ==
    /\ op = "swap_addresses"
    /\ pre.op = "swap_addresses"
    /\ src(P) # dst(P)
    /\ src(PreP) = dst(P)

(* C9: on a layer whose marker is 0x8100 (0x88A8), set_ether_type(v)       *)
(* writes v big-endian to header offsets 16..17 (20..21) and to no other   *)
(* byte: ether_type() then returns v and marker, tagging, header_len(),    *)
(* src, dst and the tag bytes are as before.                               *)
C9_SetEtherTypeTagged ==
    (op = "set_ether_type" /\ WireMarker(pre.mbuf, pre.offset) \in {33024, 34984}) =>
        LET a == offset + EtherTypeAt(WireMarker(pre.mbuf, pre.offset))
        IN /\ mbuf.mem[a] = arg \div 256
           /\ mbuf.mem[a + 1] = arg % 256
           /\ SameExcept(mbuf, pre.mbuf, {a, a + 1})
           /\ mbuf.data_len = pre.mbuf.data_len
           /\ ether_type(P) = arg
           /\ WireMarker(mbuf, offset) = WireMarker(pre.mbuf, pre.offset)
           /\ is_vlan_802_1q(P) = is_vlan_802_1q(PreP)
           /\ is_vlan_802_1ad(P) = is_vlan_802_1ad(PreP)
           /\ header_len(P) = header_len(PreP)
           /\ src(P) = src(PreP)
           /\ dst(P) = dst(PreP)

C9_Witness ==
    /\ op = "set_ether_type"
    /\ pre.op = "parse"
    /\ WireMarker(pre.mbuf, pre.offset) = 33024
    /\ arg = 34984
    /\ ether_type(P) = 34984
    /\ header_len(P) = 18

(* C10: the VlanTag accessors decode the wire bytes big-endian: with       *)
(* TCI = b0*256 + b1, priority() is bits 15-13, drop_eligible() bit 12 and *)
(* identifier() bits 11-0 of TCI; tag_id() is the big-endian value of the  *)
(* two TPID bytes.                                                         *)
C10_VlanTagWireOrder ==
    (pc = "ethernet" /\ WireMarker(mbuf, offset) = 33024
        /\ offset + 18 <= mbuf.data_len) =>
        LET t == VlanTag(mbuf.mem, offset + OFF_802_1q_tag)
            TPID == WireU16(mbuf, offset + 12)
            TCI == WireU16(mbuf, offset + 14)
        IN /\ tag_id(t) = TPID
           /\ priority(t) = TCI \div 8192
           /\ drop_eligible(t) = ((TCI \div 4096) % 2 = 1)
           /\ identifier(t) = TCI % 4096

====
